---- MODULE Spec2Model ----
(***************************************************************************)
(* Model of the LSP job notifier: the poll loop of LSPScraper.run, the     *)
(* login protocol, the direct DOM extraction with its seen set, and the    *)
(* notification manager.  The browser, the page and the transports are the *)
(* environment: every outcome they can produce is a nondeterministic       *)
(* choice of the action that uses them.                                    *)
(***************************************************************************)
EXTENDS Integers, Sequences, FiniteSets, TLC

\* ------------------------------------------------------------------ bounds
\* number of poll cycles explored (the loop of run() itself is endless)
MaxCycles == 2
\* rows shown by the grid in one extraction pass
MaxRows == 2
\* SIGINT/SIGTERM deliveries explored
MaxSignals == 2
\* rows of a page that one extraction pass is tried on
MaxProbeRows == 3

\* ------------------------------------------------------- program constants
BASE_URL == "https://kyrm.lspware.com"
LOGIN_URL == BASE_URL \o "/scheduler/#/login"
PORTAL_URL == BASE_URL \o "/scheduler/#/interpreter-portal"
\* asyncio.sleep arguments of run()
NormalSleep == 30
CooldownSleep == 60
\* minimum number of grid cells of a readable row
MinCells == 4

\* Python's None, and the empty string
None == "<None>"
Empty == ""

\* Python truthiness of an optional string
Truthy(s) == s # None /\ s # Empty

\* ----------------------------------------------------------- string helper
HasPrefix(s, p) == Len(s) >= Len(p) /\ SubSeq(s, 1, Len(p)) = p

RECURSIVE Contains(_, _)
\* Python's `p in s` on strings
Contains(s, p) ==
    IF Len(s) < Len(p) THEN FALSE
    ELSE HasPrefix(s, p) \/ Contains(SubSeq(s, 2, Len(s)), p)

LowerChar(ch) ==
    CASE ch = "A" -> "a" [] ch = "B" -> "b" [] ch = "C" -> "c" [] ch = "D" -> "d"
      [] ch = "E" -> "e" [] ch = "F" -> "f" [] ch = "G" -> "g" [] ch = "H" -> "h"
      [] ch = "I" -> "i" [] ch = "J" -> "j" [] ch = "K" -> "k" [] ch = "L" -> "l"
      [] ch = "M" -> "m" [] ch = "N" -> "n" [] ch = "O" -> "o" [] ch = "P" -> "p"
      [] ch = "Q" -> "q" [] ch = "R" -> "r" [] ch = "S" -> "s" [] ch = "T" -> "t"
      [] ch = "U" -> "u" [] ch = "V" -> "v" [] ch = "W" -> "w" [] ch = "X" -> "x"
      [] ch = "Y" -> "y" [] ch = "Z" -> "z" [] OTHER -> ch

RECURSIVE Lower(_)
\* str.lower()
Lower(s) ==
    IF Len(s) = 0 THEN Empty
    ELSE LowerChar(SubSeq(s, 1, 1)) \o Lower(SubSeq(s, 2, Len(s)))

\* ==================================================== notifications.py ====
\* outcome of telegram_bot.send_message: delivered, or an exception
BotOutcomes == {"ok", "exc"}
\* outcome of requests.post to the Bot API: HTTP 200, another status, exception
ApiOutcomes == {"200", "status", "exc"}
\* outcome of the SMTP conversation: sent, or an exception
SmtpOutcomes == {"ok", "exc"}

Attempt(via, ok) == [via |-> via, ok |-> ok]

\* NotificationManager.send_telegram: the client library first, the direct
\* API call when there is no client or the client raised.
send_telegram(bot, botOut, apiOut) ==
    IF bot /\ botOut = "ok"
    THEN [ok |-> TRUE, raised |-> FALSE, attempts |-> <<Attempt("bot", TRUE)>>]
    ELSE [ok |-> apiOut = "200", raised |-> FALSE,
          attempts |-> (IF bot THEN <<Attempt("bot", FALSE)>> ELSE <<>>)
                        \o <<Attempt("api", apiOut = "200")>>]

\* NotificationManager.send_email: every SMTP error is caught and logged
send_email_uncaught(configured, smtpOut) ==
    IF ~configured
    THEN [ok |-> FALSE, raised |-> FALSE, attempts |-> <<>>]
    ELSE [ok |-> smtpOut = "ok", raised |-> smtpOut = "exc",
          attempts |-> <<Attempt("smtp", smtpOut = "ok")>>]

send_email(configured, smtpOut) ==
    IF ~configured
    THEN [ok |-> FALSE, raised |-> FALSE, attempts |-> <<>>]
    ELSE [ok |-> smtpOut = "ok", raised |-> FALSE,
          attempts |-> <<Attempt("smtp", smtpOut = "ok")>>]

\* NotificationManager.notify
notify(bot, configured, botOut, apiOut, smtpOut) ==
    LET tg == IF bot THEN send_telegram(bot, botOut, apiOut)
              ELSE [ok |-> TRUE, raised |-> FALSE, attempts |-> <<>>]
        em == IF tg.raised
              THEN [ok |-> FALSE, raised |-> FALSE, attempts |-> <<>>]
              ELSE send_email(configured, smtpOut)
    IN  [ok |-> (TRUE /\ tg.ok) /\ em.ok,
         raised |-> tg.raised \/ em.raised,
         attempts |-> tg.attempts \o em.attempts]

\* ========================================================== scraper.py ====
\* _init_selenium creates a driver only when none is owned; it can fail
InitSelenium(d, outcome) ==
    IF d = "none" THEN (IF outcome = "ok" THEN "live" ELSE "none") ELSE d

\* `if not self.driver:` followed by a webdriver.Chrome(...) that did not
\* raise: the call of _init_selenium that starts a new browser session
Created_always(d, outcome) == outcome = "ok"
Created(d, outcome) == d = "none" /\ outcome = "ok"

\* _close_selenium: quit the driver that is owned and forget it; when quit
\* raises the assignment of None is not reached
CloseSelenium_keep(d, outcome, n) ==
    [driver |-> d, quits |-> n, raised |-> FALSE]

CloseSelenium(d, outcome, n) ==
    IF d = "live"
    THEN [driver |-> IF outcome = "ok" THEN "none" ELSE "live",
          quits |-> n + 1, raised |-> outcome = "exc"]
    ELSE [driver |-> d, quits |-> n, raised |-> FALSE]

\* ---------------------------------------------------------- the grid rows
Cell(col, text) == [col |-> col, text |-> text]
Row(rowid, cells, stale) == [rowid |-> rowid, cells |-> cells, stale |-> stale]

\* row-id attribute and a col-id marker on every cell
RowMarked ==
    Row("101", <<Cell("requestID", "101"), Cell("customerName", "Acme Corp"),
                 Cell("interpretationTime", "10:00 AM"),
                 Cell("estimateDuration", "60")>>, FALSE)
\* no row-id attribute, the id comes from the requestID cell
RowReqId ==
    Row(None, <<Cell("requestID", "102"), Cell("customerName", "Beta LLC"),
                Cell("interpretationTime", "11/05 2:00 PM"),
                Cell("estimateDuration", "30")>>, FALSE)
\* no row-id attribute and no col-id markers at all
RowPlain ==
    Row(None, <<Cell(None, "12345"), Cell(None, "10:00 AM"),
                Cell(None, "60"), Cell(None, "Acme Corp")>>, FALSE)
RowPlain2 ==
    Row(None, <<Cell(None, "777"), Cell(None, "Gamma Inc"),
                Cell(None, "12/01 9:00 AM"), Cell(None, "45")>>, FALSE)
\* fewer than four cells
RowShort ==
    Row("103", <<Cell("requestID", "103"), Cell("customerName", "Delta Co"),
                 Cell("interpretationTime", "9:30 AM")>>, FALSE)
\* a row whose element went stale: reading it raises
RowStale ==
    Row("105", <<Cell("requestID", "105"), Cell("customerName", "Acme Corp"),
                 Cell("interpretationTime", "10:00 AM"),
                 Cell("estimateDuration", "60")>>, TRUE)

GridRows == {RowMarked, RowReqId, RowPlain, RowPlain2, RowShort, RowStale}

\* what find_elements(ag-row) can return in one pass
Pages == UNION {[1..n -> GridRows] : n \in 0..MaxRows}

\* ------------------------------------------- check_jobs_direct, one row
RECURSIVE MapCells(_, _)
\* the col-id dispatch over the cells of a row, in cell order
MapCells(cells, acc) ==
    IF cells = <<>> THEN acc
    ELSE LET c == Head(cells)
             nxt == IF c.col = "requestID" /\ ~Truthy(acc.job_id)
                        THEN [acc EXCEPT !.job_id = c.text]
                    ELSE IF c.col = "customerName"
                        THEN [acc EXCEPT !.client_name = c.text]
                    ELSE IF c.col = "interpretationTime"
                        THEN [acc EXCEPT !.appointment_time = c.text]
                    ELSE IF c.col = "estimateDuration"
                        THEN [acc EXCEPT !.duration = c.text]
                    ELSE acc
         IN  MapCells(Tail(cells), nxt)

\* positional fallback for the fields the markers left empty
Positional(cells, acc) ==
    [job_id |-> acc.job_id,
     client_name |-> IF acc.client_name = Empty /\ Len(cells) > 1
                     THEN cells[2].text ELSE acc.client_name,
     appointment_time |-> IF acc.appointment_time = Empty /\ Len(cells) > 2
                          THEN cells[3].text ELSE acc.appointment_time,
     duration |-> IF acc.duration = Empty /\ Len(cells) > 3
                  THEN cells[4].text ELSE acc.duration]

\* the job_details dictionary
JobDetails_nodefault(m) ==
    [id |-> m.job_id,
     title |-> "Interpretation for " \o m.client_name,
     client |-> m.client_name,
     date |-> m.appointment_time,
     duration |-> m.duration,
     description |-> "Duration: " \o m.duration \o " minutes\nTime: "
                     \o m.appointment_time \o "\nClient: " \o m.client_name,
     location |-> m.client_name]

JobDetails(m) ==
    [id |-> m.job_id,
     title |-> IF m.client_name # Empty
               THEN "Interpretation for " \o m.client_name
               ELSE "Interpretation Job",
     client |-> IF m.client_name # Empty THEN m.client_name ELSE "Unknown Client",
     date |-> IF m.appointment_time # Empty THEN m.appointment_time ELSE "Unknown Time",
     duration |-> IF m.duration # Empty THEN m.duration ELSE "Unknown Duration",
     description |-> "Duration: " \o m.duration \o " minutes\nTime: "
                     \o m.appointment_time \o "\nClient: " \o m.client_name,
     location |-> IF m.client_name # Empty THEN m.client_name ELSE "Unknown Location"]

\* the record a readable row is mapped to
ExtractRow(row) ==
    JobDetails(Positional(row.cells,
        MapCells(row.cells, [job_id |-> row.rowid, client_name |-> Empty,
                             appointment_time |-> Empty, duration |-> Empty])))

\* a row that reaches the dedup test
Readable_any(row) == ~row.stale
Readable(row) == ~row.stale /\ Len(row.cells) >= MinCells

\* every id extraction can produce
JobIds == {ExtractRow(r).id : r \in {q \in GridRows : Readable(q)}}

\* the dedup step records a row that was not seen before
\* `self.seen_jobs.add(job_id)`
Remember_reset(seen, id) == {id}
Remember(seen, id) == seen \cup {id}

DedupRecord_noadd(st, job) ==
    IF job.id \notin st.seen
    THEN [st EXCEPT !.new_jobs = Append(@, job)]
    ELSE [st EXCEPT !.reseen = @ \cup {job.id}]

DedupRecord(st, job) ==
    IF job.id \notin st.seen
    THEN [st EXCEPT !.new_jobs = Append(@, job),
                    !.seen = Remember(@, job.id)]
    ELSE [st EXCEPT !.reseen = @ \cup {job.id}]

\* one iteration of the loop over job_rows: a row whose element raises leaves
\* the `try` of that iteration only, a row that is too short is logged
RowStep_discard(st, row) ==
    IF row.stale THEN [st EXCEPT !.new_jobs = <<>>]
    ELSE IF Readable(row) THEN DedupRecord(st, ExtractRow(row))
    ELSE st

RowStep(st, row) ==
    IF row.stale THEN st
    ELSE IF Readable(row) THEN DedupRecord(st, ExtractRow(row))
    ELSE st

RECURSIVE ProcessRows(_, _)
\* the loop over job_rows
ProcessRows(rows, st) ==
    IF rows = <<>> THEN st
    ELSE ProcessRows(Tail(rows), RowStep(st, Head(rows)))

\* outcomes of the tab selectors in the order they are tried: "ok" is a
\* selector that was found and clicked, "exc" one that raised
TabOutcomes == {<<"ok">>, <<"exc", "exc", "ok">>, <<"exc", "exc", "exc", "exc">>}

RECURSIVE FirstOk(_, _)
\* index of the first selector from k on that succeeded, 0 when none did
FirstOk(outs, k) ==
    IF k > Len(outs) THEN 0
    ELSE IF outs[k] = "ok" THEN k
    ELSE FirstOk(outs, k + 1)

\* check_jobs_direct as a function of what the browser does: init is the
\* driver start, dom is "ok", an exception of driver.get ("nav_exc") or an
\* exception on the fixed way down to the rows ("grid_exc"), tab the outcomes
\* of the Open Jobs selectors, page the rows of the grid.  Every exception is
\* answered with an empty list.
check_jobs_direct_tababort(d, init, dom, tab, page, seen, rs) ==
    LET d1 == InitSelenium(d, init)
        outcome == IF d1 = "none" THEN "init_exc"
                   ELSE IF dom # "nav_exc" /\ FirstOk(tab, 1) = 0 THEN "no_tab"
                   ELSE dom
        st0 == [seen |-> seen, new_jobs |-> <<>>, reseen |-> rs]
        st == IF outcome = "ok" THEN ProcessRows(page, st0) ELSE st0
    IN  [driver |-> d1, outcome |-> outcome, raised |-> FALSE,
         tab_found |-> outcome \in {"ok", "grid_exc"} /\ FirstOk(tab, 1) > 0,
         seen |-> st.seen, new_jobs |-> st.new_jobs, reseen |-> st.reseen]

check_jobs_direct(d, init, dom, tab, page, seen, rs) ==
    LET d1 == InitSelenium(d, init)
        outcome == IF d1 = "none" THEN "init_exc" ELSE dom
        st0 == [seen |-> seen, new_jobs |-> <<>>, reseen |-> rs]
        st == IF outcome = "ok" THEN ProcessRows(page, st0) ELSE st0
    IN  [driver |-> d1, outcome |-> outcome, raised |-> FALSE,
         tab_found |-> outcome \in {"ok", "grid_exc"} /\ FirstOk(tab, 1) > 0,
         seen |-> st.seen, new_jobs |-> st.new_jobs, reseen |-> st.reseen]

\* --------------------------------------------------- check_closed_jobs()
\* rows with a single customerName marker, and with a two-cell layout
RowCustLast ==
    Row("106", <<Cell(None, "9:15 AM"), Cell(None, "Zed Ltd"), Cell(None, "45"),
                 Cell("customerName", "Acme Corp")>>, FALSE)
RowCustEmpty ==
    Row("107", <<Cell(None, "555"), Cell(None, "Zed Ltd"), Cell(None, "1:00 PM"),
                 Cell("customerName", Empty)>>, FALSE)
RowTwoCells ==
    Row(None, <<Cell(None, "Acme Corp"), Cell(None, "3:00 PM")>>, FALSE)
\* a rendered row whose cells hold no text yet
RowBlank ==
    Row("108", <<Cell(None, Empty), Cell(None, Empty), Cell(None, Empty),
                 Cell(None, Empty)>>, FALSE)

\* the rows an extraction pass is tried on
ProbeRows ==
    {RowMarked, RowReqId, RowPlain, RowPlain2, RowShort, RowStale,
     RowCustLast, RowCustEmpty, RowTwoCells, RowBlank}

ProbePages == UNION {[1..n -> ProbeRows] : n \in 0..MaxProbeRows}

\* the seen sets a pass is tried with: nothing seen, or one of the rows
SeenChoices == {{}} \cup {{ExtractRow(r).id} : r \in {RowMarked, RowPlain}}

\* every cell text of those rows
CellTexts ==
    UNION {{r.cells[k].text : k \in DOMAIN r.cells} : r \in ProbeRows \cup GridRows}

\* str.isdigit()
IsDigit(s) ==
    /\ Len(s) > 0
    /\ \A k \in 1..Len(s) :
          SubSeq(s, k, k) \in {"0", "1", "2", "3", "4", "5", "6", "7", "8", "9"}

\* the three content-shape tests of the educated guess
LooksLikeTime(t) ==
    Contains(t, "/") \/ Contains(t, ":") \/ Contains(t, "AM") \/ Contains(t, "PM")
MaxDurationDigits == 4
LooksLikeDuration(t) == IsDigit(t) /\ Len(t) <= MaxDurationDigits
LooksLikeClient(t) ==
    t # Empty /\ ~IsDigit(t) /\ ~Contains(t, "/") /\ ~Contains(t, ":")

\* the tests, tabulated over the cell texts
TimeOf == [t \in CellTexts |-> LooksLikeTime(t)]
DurationOf == [t \in CellTexts |-> LooksLikeDuration(t)]
ClientOf == [t \in CellTexts |-> LooksLikeClient(t)]

RECURSIVE ClosedMapCells(_, _)
\* the col-id dispatch of check_closed_jobs, with its two aliases
ClosedMapCells(cells, acc) ==
    IF cells = <<>> THEN acc
    ELSE LET c == Head(cells)
             nxt == IF c.col = "requestID" /\ ~Truthy(acc.job_id)
                        THEN [acc EXCEPT !.job_id = c.text]
                    ELSE IF c.col = "customerName"
                        THEN [acc EXCEPT !.client_name = c.text]
                    ELSE IF c.col \in {"interpretationTime", "appointmentTime"}
                        THEN [acc EXCEPT !.appointment_time = c.text]
                    ELSE IF c.col \in {"estimateDuration", "duration"}
                        THEN [acc EXCEPT !.duration = c.text]
                    ELSE acc
         IN  ClosedMapCells(Tail(cells), nxt)

RECURSIVE GuessCells(_, _)
\* the educated guess over the cell texts, in cell order
GuessCells(cells, acc) ==
    IF cells = <<>> THEN acc
    ELSE LET t == Head(cells).text
             nxt == IF acc.appointment_time = Empty /\ TimeOf[t]
                        THEN [acc EXCEPT !.appointment_time = t]
                    ELSE IF acc.duration = Empty /\ DurationOf[t]
                        THEN [acc EXCEPT !.duration = t]
                    ELSE IF acc.client_name = Empty /\ ClientOf[t]
                        THEN [acc EXCEPT !.client_name = t]
                    ELSE acc
         IN  GuessCells(Tail(cells), nxt)

\* `if not all([client_name, appointment_time])`: guess only then
Guess(cells, acc) ==
    IF acc.client_name # Empty /\ acc.appointment_time # Empty THEN acc
    ELSE GuessCells(cells, acc)

\* the characters of the row texts, in the order of their code points
Alphabet ==
    "\n /0123456789:ABCDEFGHIJKLMNOPQRSTUVWXYZabcdefghijklmnopqrstuvwxyz"

\* position of a character in the alphabet, 0 for any other
Ord(ch) ==
    IF \E k \in 1..Len(Alphabet) : SubSeq(Alphabet, k, k) = ch
    THEN CHOOSE k \in 1..Len(Alphabet) : SubSeq(Alphabet, k, k) = ch
    ELSE 0

\* width of the modelled hash value
HashModulus == 65536
\* PYTHONHASHSEED values of the process
HashSeeds == {0, 7}

RECURSIVE HashUpTo(_, _, _)
\* the hash of the first k characters of a text
HashUpTo(seed, text, k) ==
    IF k = 0 THEN seed
    ELSE (HashUpTo(seed, text, k - 1) * 31 + Ord(SubSeq(text, k, k)))
             % HashModulus

\* hash(str): a fixed function of the text within one process, another one
\* in a process with another seed
PyHash(seed, text) == HashUpTo(seed, text, Len(text))

RECURSIVE JoinLines(_)
\* "\n".join(text for text in cell_texts if text); row.text of a grid row
\* is the same lines
JoinLines(cells) ==
    IF cells = <<>> THEN Empty
    ELSE LET rest == JoinLines(Tail(cells))
             t == Head(cells).text
         IN  IF t = Empty THEN rest
             ELSE IF rest = Empty THEN t
             ELSE t \o "\n" \o rest

\* the id of a closed-jobs row: the row-id or id attribute, else the hash of
\* the row text, else the hash of the first cell or of "unknown"
ClosedJobId(row, seed) ==
    LET row_text == JoinLines(row.cells)
    IN  IF Truthy(row.rowid) THEN row.rowid
        ELSE IF row_text # Empty THEN ToString(PyHash(seed, row_text))
        ELSE IF Len(row.cells) > 0
            THEN ToString(PyHash(seed, IF row.cells[1].text # Empty
                                        THEN row.cells[1].text ELSE "unknown"))
        ELSE None

\* rows of check_closed_jobs need two cells
MinClosedCells == 2
\* check_closed_jobs looks at the first ten rows
MaxClosedRows == 10

\* the job_details dictionary of check_closed_jobs
ClosedJobDetails(m, cells) ==
    [id |-> m.job_id,
     title |-> IF m.client_name # Empty
               THEN "Interpretation for " \o m.client_name
               ELSE "Interpretation Job",
     client |-> IF m.client_name # Empty THEN m.client_name ELSE "Unknown Client",
     date |-> IF m.appointment_time # Empty THEN m.appointment_time ELSE "Unknown Time",
     duration |-> IF m.duration # Empty THEN m.duration ELSE "Unknown Duration",
     description |-> JoinLines(cells),
     location |-> IF m.client_name # Empty THEN m.client_name ELSE "Unknown Location"]

\* the fields a closed-jobs row is mapped to: markers, then the educated
\* guess, then the positions
ClosedFields(row, seed) ==
    Positional(row.cells,
        Guess(row.cells,
            ClosedMapCells(row.cells,
                [job_id |-> ClosedJobId(row, seed), client_name |-> Empty,
                 appointment_time |-> Empty, duration |-> Empty])))

\* one iteration of the loop over job_elements: the records so far, with the
\* record of this row when it has cells enough and a client or a time
ClosedRowStep(jobs, row, seed) ==
    IF row.stale \/ Len(row.cells) < MinClosedCells THEN jobs
    ELSE LET m == ClosedFields(row, seed)
         IN  IF m.client_name # Empty \/ m.appointment_time # Empty
             THEN Append(jobs, ClosedJobDetails(m, row.cells))
             ELSE jobs

\* the step of every row, tabulated
ClosedRecordOf ==
    [seed \in HashSeeds |->
        [r \in ProbeRows \cup GridRows |-> ClosedRowStep(<<>>, r, seed)]]

RECURSIVE ProcessClosedRows(_, _, _)
\* the loop over job_elements[:10]; closed rows are not tested against
\* seen_jobs and not added to it
ProcessClosedRows(rows, seed, jobs) ==
    IF rows = <<>> THEN jobs
    ELSE ProcessClosedRows(Tail(rows), seed, jobs \o ClosedRecordOf[seed][Head(rows)])

\* outcomes of the selector lists of check_closed_jobs, in the order tried.
\* A tab or grid selector is found ("ok") or raises ("exc"); a row selector
\* finds rows inside the grid ("grid"), only in the whole page ("page"),
\* nowhere ("none"), or raises ("exc").
ClosedTabOutcomes == {<<"ok">>, <<"exc", "exc", "exc", "exc", "exc">>}
GridOutcomes ==
    {<<"ok">>, <<"exc", "exc", "ok">>,
     <<"exc", "exc", "exc", "exc", "exc", "exc", "exc", "exc", "exc", "exc">>}
RowSelOutcomes ==
    {<<"grid">>, <<"exc", "page">>, <<"none", "exc", "grid", "page">>,
     <<"none", "none", "none", "none", "none">>,
     <<"exc", "exc", "exc", "exc", "exc">>}

RECURSIVE FirstRows(_, _)
\* index of the first row selector from k on that found rows, 0 when none did
FirstRows(outs, k) ==
    IF k > Len(outs) THEN 0
    ELSE IF outs[k] \in {"grid", "page"} THEN k
    ELSE FirstRows(outs, k + 1)

\* what the browser does during one call of check_closed_jobs; what would
\* come after the step that ends the call is left at its first value
ClosedEnvs ==
    LET all == [nav : {"ok", "exc"}, dump : {"ok", "exc"},
                tab : ClosedTabOutcomes, grid : GridOutcomes,
                sel : RowSelOutcomes]
        rest(e, n) == /\ n < 1 => e.dump = "ok"
                      /\ n < 2 => e.tab = <<"ok">>
                      /\ n < 3 => e.grid = <<"ok">>
                      /\ n < 4 => e.sel = <<"grid">>
    IN  {e \in all : /\ e.nav = "exc" => rest(e, 0)
                     /\ e.dump = "exc" => rest(e, 1)
                     /\ FirstOk(e.tab, 1) = 0 => rest(e, 2)
                     /\ FirstOk(e.grid, 1) = 0 => rest(e, 3)}

\* how far the call gets before it reads rows
ClosedOutcome(d1, e, page) ==
    IF d1 = "none" THEN "init_exc"
    ELSE IF e.nav = "exc" THEN "nav_exc"
    ELSE IF e.dump = "exc" THEN "dump_exc"
    ELSE IF FirstOk(e.tab, 1) = 0 THEN "no_tab"
    ELSE IF FirstOk(e.grid, 1) = 0 THEN "no_grid"
    ELSE IF page = <<>> \/ FirstRows(e.sel, 1) = 0 THEN "no_rows"
    ELSE "ok"

\* check_closed_jobs as a function of what the browser does
check_closed_jobs(d, init, e, page, seed) ==
    LET d1 == InitSelenium(d, init)
        outcome == ClosedOutcome(d1, e, page)
        rows == IF outcome = "ok"
                THEN SubSeq(page, 1, IF Len(page) < MaxClosedRows
                                     THEN Len(page) ELSE MaxClosedRows)
                ELSE <<>>
    IN  [driver |-> d1, outcome |-> outcome, raised |-> FALSE,
         strategy |-> IF outcome \in {"ok", "no_rows"}
                      THEN FirstRows(e.sel, 1) ELSE 0,
         jobs |-> ProcessClosedRows(rows, seed, <<>>)]

\* ------------------------------------------------------------- the state
VARIABLES
    pc,               \* position of run() and of the call it awaits
    cycle,            \* number of the current iteration of `while True`
    driver,           \* self.driver: "none" or "live"
    telegram_bot,     \* self.telegram_bot is not None
    email_configured, \* all four EMAIL_* settings are set
    seen_jobs,        \* self.seen_jobs
    new_jobs,         \* the records process_new_jobs still has to alert
    authenticated,    \* the browser session is logged in to the portal
    lg,               \* the locals of the running login() call
    cyc,              \* what the current cycle has done so far
    sleepSecs,        \* argument of the asyncio.sleep in progress
    notifyCount,      \* notify calls made by process_new_jobs, per job id
    lastNotify,       \* the last notify call: its attempts and its result
    reseen,           \* ids the dedup test of this cycle found already seen
    mode,             \* what sys.argv selects in main()
    sig,              \* SIGINT/SIGTERM deliveries to the signal handler
    ctask,            \* the cleanup() task created by the signal handler
    quits,            \* calls of driver.quit() made so far
    starts,           \* browser sessions _init_selenium has created so far
    trims,            \* old-file cleanups run() has triggered so far
    failed,           \* ids for whose record notify has returned False
    loginMsgs,        \* "successfully logged in" messages login() has sent
    fn                \* one extraction pass looked at on its own

vars == <<pc, cycle, driver, telegram_bot, email_configured, seen_jobs,
          new_jobs, authenticated, lg, cyc, sleepSecs, notifyCount,
          lastNotify, reseen, mode, sig, ctask, quits, starts, trims, loginMsgs, failed, fn>>

\* locals of login() before its first statement
LgInit ==
    [visited |-> FALSE, username_field |-> FALSE, password_field |-> FALSE,
     login_button |-> FALSE, clicked |-> FALSE, current_url |-> None,
     element |-> FALSE, screenshot |-> "none", page_source |-> None,
     successful_login |-> FALSE, classified |-> "none", portal |-> FALSE,
     failed_at |-> "none", raised |-> FALSE, ret |-> "none"]

\* a cycle that has not done anything yet; prev is how the last one ended.
\* verify and startup are what run() got before its first cycle.
CycInit(prev) ==
    [login |-> "none", extracted |-> "none", batch |-> <<>>, notified |-> <<>>,
     error |-> "none", prev |-> prev, verify |-> "none", startup |-> "none"]

NoNotify == [called |-> FALSE, id |-> None, ok |-> FALSE, raised |-> FALSE,
             attempts |-> <<>>]

\* ---------------------------------------------------------------- main.py
\* the invocation modes main() tells apart by sys.argv[1]
Modes == {"run", "test_notification", "debug_closed", "debug_direct"}
OneShot == Modes \ {"run"}

\* the first call main() makes in each mode
Entry(m) ==
    IF m = "test_notification" THEN "test_send"
    ELSE IF m \in {"debug_closed", "debug_direct"} THEN "login"
    ELSE "verify"

\* no signal was delivered yet
NoSignal == [count |-> 0, at |-> "none", in_cleanup |-> FALSE]

\* no extraction pass is looked at on its own
NoPass == [phase |-> "idle"]

Init ==
    /\ mode \in Modes
    /\ pc = Entry(mode)
    /\ sig = NoSignal
    /\ ctask = "none"
    /\ quits = 0
    /\ starts = 0
    /\ trims = 0
    /\ loginMsgs = 0
    /\ failed = {}
    /\ fn = NoPass
    /\ cycle = 1
    /\ driver = "none"
    /\ telegram_bot \in BOOLEAN
    /\ email_configured \in BOOLEAN
    /\ seen_jobs = {}
    /\ new_jobs = <<>>
    /\ authenticated = FALSE
    /\ lg = LgInit
    /\ cyc = CycInit("none")
    /\ sleepSecs = 0
    /\ notifyCount = [i \in JobIds |-> 0]
    /\ lastNotify = NoNotify
    /\ reseen = {}

\* ----------------------------------------------------------------- run()
\* NotificationManager.verify_telegram_bot: False without a client, else
\* whether get_me answered
verify_telegram_bot(bot, getMe) == bot /\ getMe = "ok"

\* run() drops the result of _verify_notification_systems
AfterVerify_gate(ok) == IF ok THEN "startup" ELSE "returned"

AfterVerify(ok) == "startup"

\* run() drops the result of the startup message
AfterStartup(ok) == "login"

\* await self._verify_notification_systems()
VerifyChannels ==
    /\ pc = "verify"
    /\ \E getMe \in BotOutcomes :
          LET ok == verify_telegram_bot(telegram_bot, getMe)
          IN  /\ cyc' = [cyc EXCEPT !.verify = IF ok THEN "true" ELSE "false"]
              /\ pc' = AfterVerify(ok)
    /\ UNCHANGED <<cycle, driver, telegram_bot, email_configured, seen_jobs,
                   new_jobs, authenticated, lg, sleepSecs, notifyCount,
                   lastNotify, reseen, mode, sig, ctask, quits, starts, trims, loginMsgs, failed, fn>>

\* the startup message: send_telegram does not raise
StartupMessage ==
    /\ pc = "startup"
    /\ \E botOut \in BotOutcomes, apiOut \in ApiOutcomes :
          LET r == send_telegram(telegram_bot, botOut, apiOut)
          IN  /\ cyc' = [cyc EXCEPT !.startup = IF r.ok THEN "sent" ELSE "failed"]
              /\ pc' = AfterStartup(r.ok)
    /\ UNCHANGED <<cycle, driver, telegram_bot, email_configured, seen_jobs,
                   new_jobs, authenticated, lg, sleepSecs, notifyCount,
                   lastNotify, reseen, mode, sig, ctask, quits, starts, trims, loginMsgs, failed, fn>>

\* the handler of `except Exception` in the loop of run(): log, cool down
\* (at is the call the exception came out of)
\* the argument of the asyncio.sleep that ends a cycle of run(): 30 after a
\* pass that ran to its end, 60 after a refused login or an exception
CyclePause_flat(completed) == NormalSleep
CyclePause(completed) == IF completed THEN NormalSleep ELSE CooldownSleep

RunExcept_propagate(c, at) ==
    [pc |-> "returned", secs |-> 0, cyc |-> [c EXCEPT !.error = at]]

RunExcept(c, at) ==
    [pc |-> "sleep", secs |-> CyclePause(FALSE), cyc |-> [c EXCEPT !.error = at]]

\* the call that a position belongs to
CallAt(p) ==
    IF p \in {"extract", "closed_extract"} THEN "extract"
    ELSE IF p \in {"notify", "print", "test_send"} THEN p
    ELSE "login"

\* main.py: the `except Exception` of a debug function prints the error and
\* its `finally` awaits cleanup()
DebugExcept(c, at) ==
    [pc |-> "cleanup", secs |-> 0, cyc |-> [c EXCEPT !.error = at]]

\* send_test_notification has no handler: the exception ends main()
TestExcept(c, at) ==
    [pc |-> "exited", secs |-> 0, cyc |-> [c EXCEPT !.error = at]]

\* the handler an exception meets on its way out, by invocation mode
Handler(m, c, at) ==
    IF m = "run" THEN RunExcept(c, at)
    ELSE IF m = "test_notification" THEN TestExcept(c, at)
    ELSE DebugExcept(c, at)

\* positions inside the try block of a debug function
DebugTryBody == {"login", "l_user", "l_pass", "l_button", "l_click",
                 "l_classify", "l_portal", "login_ret", "extract",
                 "closed_extract", "print"}

\* positions inside the try block of the loop
TryBody == {"login", "l_user", "l_pass", "l_button", "l_click", "l_classify",
            "l_portal", "login_ret", "extract", "notify"}

\* An exception that no inner handler absorbs (the inner handlers themselves
\* format and log, and a MemoryError can be raised anywhere) reaches run().
UnexpectedError ==
    /\ \/ mode = "run" /\ pc \in TryBody
       \/ mode \in {"debug_closed", "debug_direct"} /\ pc \in DebugTryBody
       \/ mode = "test_notification" /\ pc = "test_send"
    /\ LET h == Handler(mode, cyc, CallAt(pc))
       IN  /\ pc' = h.pc
           /\ sleepSecs' = h.secs
           /\ cyc' = h.cyc
    /\ lg' = LgInit
    /\ new_jobs' = <<>>
    /\ UNCHANGED <<cycle, driver, telegram_bot, email_configured, seen_jobs,
                   authenticated, notifyCount, lastNotify, reseen,
                   mode, sig, ctask, quits, starts, trims, loginMsgs, failed, fn>>

\* ---------------------------------------------------------------- login()
\* the outermost `except Exception` of login(): log and return False
LoginExcept_reraise(l, step) ==
    [l EXCEPT !.failed_at = step, !.raised = TRUE]

LoginExcept(l, step) ==
    [l EXCEPT !.failed_at = step, !.ret = "false"]

\* _init_selenium and driver.get(LOGIN_URL)
LoginStart ==
    /\ pc = "login"
    /\ \E init \in {"ok", "exc"}, nav \in {"ok", "exc"} :
          /\ driver' = InitSelenium(driver, init)
          /\ IF driver' = "none"
             THEN lg' = LoginExcept(LgInit, "driver") /\ pc' = "login_ret"
             ELSE IF nav = "exc"
             THEN lg' = LoginExcept(LgInit, "visit") /\ pc' = "login_ret"
             ELSE lg' = [LgInit EXCEPT !.visited = TRUE] /\ pc' = "l_user"
          /\ starts' = starts + (IF Created(driver, init) THEN 1 ELSE 0)
    /\ UNCHANGED <<cycle, telegram_bot, email_configured, seen_jobs, new_jobs,
                   authenticated, cyc, sleepSecs, notifyCount, lastNotify,
                   reseen,
                   mode, sig, ctask, quits, trims, loginMsgs, failed, fn>>

\* wait for input[name='email'], then clear it and type the user name
LoginUsername ==
    /\ pc = "l_user"
    /\ \E found \in BOOLEAN :
          IF found
          THEN lg' = [lg EXCEPT !.username_field = TRUE] /\ pc' = "l_pass"
          ELSE lg' = LoginExcept(lg, "username") /\ pc' = "login_ret"
    /\ UNCHANGED <<cycle, driver, telegram_bot, email_configured, seen_jobs,
                   new_jobs, authenticated, cyc, sleepSecs, notifyCount,
                   lastNotify, reseen,
                   mode, sig, ctask, quits, starts, trims, loginMsgs, failed, fn>>

\* find input[name='password'], then clear it and type the password
LoginPassword ==
    /\ pc = "l_pass"
    /\ \E found \in BOOLEAN :
          IF found
          THEN lg' = [lg EXCEPT !.password_field = TRUE] /\ pc' = "l_button"
          ELSE lg' = LoginExcept(lg, "password") /\ pc' = "login_ret"
    /\ UNCHANGED <<cycle, driver, telegram_bot, email_configured, seen_jobs,
                   new_jobs, authenticated, cyc, sleepSecs, notifyCount,
                   lastNotify, reseen,
                   mode, sig, ctask, quits, starts, trims, loginMsgs, failed, fn>>

\* enable and find button[name='btn-login']
LoginButton ==
    /\ pc = "l_button"
    /\ \E found \in BOOLEAN :
          IF found
          THEN lg' = [lg EXCEPT !.login_button = TRUE] /\ pc' = "l_click"
          ELSE lg' = LoginExcept(lg, "button") /\ pc' = "login_ret"
    /\ UNCHANGED <<cycle, driver, telegram_bot, email_configured, seen_jobs,
                   new_jobs, authenticated, cyc, sleepSecs, notifyCount,
                   lastNotify, reseen,
                   mode, sig, ctask, quits, starts, trims, loginMsgs, failed, fn>>

\* login_button.click(): the credentials are submitted
LoginClick ==
    /\ pc = "l_click"
    /\ \E ok \in BOOLEAN :
          IF ok
          THEN lg' = [lg EXCEPT !.clicked = TRUE] /\ pc' = "l_classify"
          ELSE lg' = LoginExcept(lg, "click") /\ pc' = "login_ret"
    /\ UNCHANGED <<cycle, driver, telegram_bot, email_configured, seen_jobs,
                   new_jobs, authenticated, cyc, sleepSecs, notifyCount,
                   lastNotify, reseen,
                   mode, sig, ctask, quits, starts, trims, loginMsgs, failed, fn>>

\* URL fragments that count as a landing page after login
success_patterns == <<"/jobs", "/dashboard", "/interpreter-portal", "/home">>
\* words of the page text that count as a landing page after login
login_indicators ==
    <<"logout", "welcome", "dashboard", "profile", "interpreter portal">>

\* signal (a): the URL after the submit matches a success pattern
UrlSignal(url) ==
    \E i \in DOMAIN success_patterns : Contains(url, success_patterns[i])

\* signal (c): the lower-cased page source contains an indicator
TextSignal(page) ==
    \E i \in DOMAIN login_indicators : Contains(Lower(page), login_indicators[i])

\* URLs the browser can be at five seconds after the click
PostSubmitUrls ==
    {LOGIN_URL, PORTAL_URL, BASE_URL \o "/scheduler/#/error",
     BASE_URL \o "/scheduler/#/login?next=/home"}

\* page sources the browser can hold at that time
PageSources == {"<form>Sign in</form>", "<h1>Welcome</h1>"}

\* "/login" in current_url
OnLoginPage(url) == Contains(url, "/login")

\* the three string tests, tabulated over the URLs and page sources above
UrlSignalOf == [u \in PostSubmitUrls |-> UrlSignal(u)]
TextSignalOf == [p \in PageSources |-> TextSignal(p)]
OnLoginPageOf == [u \in PostSubmitUrls |-> OnLoginPage(u)]

\* successful_login after the three checks: (a), then (b) if (a) failed, then
\* the screenshot followed by (c) if both failed; an exception of the
\* screenshot leaves the block before (c) is looked at
Classify(url, element, shot, page) ==
    LET a == UrlSignalOf[url]
        b == a \/ element
    IN  b \/ (shot = "ok" /\ TextSignalOf[page])

\* the test that decides between the portal branch and "Login failed"
Proceeds(successful, url) == successful \/ ~OnLoginPageOf[url]

\* read current_url and classify the login attempt
LoginClassify ==
    /\ pc = "l_classify"
    /\ \E cu \in {"ok", "exc"}, url \in PostSubmitUrls, element \in BOOLEAN,
          shot \in {"ok", "exc"}, page \in PageSources :
          IF cu = "exc"
          THEN lg' = LoginExcept(lg, "current_url") /\ pc' = "login_ret"
          ELSE LET ok == Classify(url, element, shot, page)
                   a == UrlSignalOf[url]
                   \* what the page shows is kept only as far as the
                   \* checks get: (b) is looked at when (a) failed, the
                   \* screenshot and the page text when (a) and (b) failed
                   l1 == [lg EXCEPT !.current_url = url,
                                    !.element = ~a /\ element,
                                    !.screenshot =
                                        IF a \/ element THEN "none" ELSE shot,
                                    !.page_source =
                                        IF a \/ element THEN None ELSE page,
                                    !.successful_login = ok]
               IN  IF Proceeds(ok, url)
                   THEN /\ lg' = [l1 EXCEPT !.classified = "success"]
                        /\ pc' = "l_portal"
                   ELSE /\ lg' = [l1 EXCEPT !.classified = "failed",
                                            !.ret = "false"]
                        /\ pc' = "login_ret"
    /\ UNCHANGED <<cycle, driver, telegram_bot, email_configured, seen_jobs,
                   new_jobs, authenticated, cyc, sleepSecs, notifyCount,
                   lastNotify, reseen,
                   mode, sig, ctask, quits, starts, trims, loginMsgs, failed, fn>>

\* navigate to the interpreter portal, send the status message (its outcome
\* is only logged), dump the page source, return True; an exception of the
\* navigation or of the dump returns False
PortalResult_ignore(l, nav, dump) ==
    IF dump = "exc" /\ nav = "ok"
        THEN [l EXCEPT !.portal = TRUE, !.failed_at = "dump", !.ret = "false"]
    ELSE [l EXCEPT !.portal = (nav = "ok"), !.ret = "true"]

PortalResult(l, nav, dump) ==
    IF nav = "exc"
        THEN [l EXCEPT !.failed_at = "portal", !.ret = "false"]
    ELSE IF dump = "exc"
        THEN [l EXCEPT !.portal = TRUE, !.failed_at = "dump", !.ret = "false"]
    ELSE [l EXCEPT !.portal = TRUE, !.ret = "true"]

\* the portal branch of login() as one step
LoginPortal ==
    /\ pc = "l_portal"
    /\ \E nav \in {"ok", "exc"}, dump \in {"ok", "exc"} :
          /\ lg' = PortalResult(lg, nav, dump)
          \* the message is sent once the portal page was loaded
          /\ loginMsgs' = loginMsgs + (IF nav = "ok" THEN 1 ELSE 0)
    /\ pc' = "login_ret"
    /\ UNCHANGED <<cycle, driver, telegram_bot, email_configured, seen_jobs,
                   new_jobs, authenticated, cyc, sleepSecs, notifyCount,
                   lastNotify, reseen,
                   mode, sig, ctask, quits, starts, trims, failed, fn>>

\* `if not await self.login(): ... sleep(60); continue`
AfterLogin_nocontinue(ok) == [pc |-> "extract", secs |-> 0]

AfterLogin(ok) ==
    IF ok THEN [pc |-> "extract", secs |-> 0]
    ELSE [pc |-> "sleep", secs |-> CyclePause(FALSE)]

\* main.py: `if not login_success: print(...); return` of a debug function,
\* else the extraction that the mode asks for
DebugAfterLogin_noreturn(m, ok) ==
    IF m = "debug_closed" THEN [pc |-> "closed_extract", secs |-> 0]
    ELSE [pc |-> "extract", secs |-> 0]

DebugAfterLogin(m, ok) ==
    IF ~ok THEN [pc |-> "cleanup", secs |-> 0]
    ELSE IF m = "debug_closed" THEN [pc |-> "closed_extract", secs |-> 0]
    ELSE [pc |-> "extract", secs |-> 0]

\* what the caller of login() does with its result
Caller(m, ok) == IF m = "run" THEN AfterLogin(ok) ELSE DebugAfterLogin(m, ok)

\* login() returns to its caller
LoginReturn ==
    /\ pc = "login_ret"
    /\ IF lg.raised
       THEN LET h == Handler(mode, cyc, "login")
            IN  /\ pc' = h.pc
                /\ sleepSecs' = h.secs
                /\ cyc' = h.cyc
                /\ authenticated' = authenticated
       ELSE LET n == Caller(mode, lg.ret = "true")
            IN  /\ pc' = n.pc
                /\ sleepSecs' = n.secs
                /\ cyc' = [cyc EXCEPT !.login = lg.ret]
                /\ authenticated' = (lg.ret = "true")
    /\ lg' = LgInit
    /\ UNCHANGED <<cycle, driver, telegram_bot, email_configured, seen_jobs,
                   new_jobs, notifyCount, lastNotify, reseen,
                   mode, sig, ctask, quits, starts, trims, loginMsgs, failed, fn>>

\* ---------------------------------------------------- check_jobs_direct()
RECURSIVE IdsOf(_)
IdsOf(jobs) == IF jobs = <<>> THEN <<>> ELSE <<Head(jobs).id>> \o IdsOf(Tail(jobs))

\* what the caller of check_jobs_direct does with a result: run() alerts a
\* non-empty batch and sleeps after an empty one, debug_direct_jobs prints
AfterExtract_alert(m, jobs) ==
    IF jobs # <<>> THEN [pc |-> "notify", secs |-> 0]
    ELSE IF m # "run" THEN [pc |-> "print", secs |-> 0]
    ELSE [pc |-> "sleep", secs |-> NormalSleep]

AfterExtract(m, jobs) ==
    IF m # "run" THEN [pc |-> "print", secs |-> 0]
    ELSE IF jobs # <<>> THEN [pc |-> "notify", secs |-> 0]
    ELSE [pc |-> "sleep", secs |-> CyclePause(TRUE)]

\* The whole call and the test its caller makes on the result.
CheckJobsDirect ==
    /\ pc = "extract"
    /\ \E init \in (IF driver = "none" THEN {"ok", "exc"} ELSE {"ok"}),
          dom \in {"ok", "nav_exc", "grid_exc"}, tab \in TabOutcomes :
       \* the rows are read only when the grid was reached
       \E page \in (IF dom = "ok" THEN Pages ELSE {<<>>}) :
          \E r \in {check_jobs_direct(driver, init, dom, tab, page, seen_jobs,
                                     reseen)} :
          LET n == AfterExtract(mode, r.new_jobs)
          IN  /\ driver' = r.driver
              /\ seen_jobs' = r.seen
              /\ reseen' = r.reseen
              /\ new_jobs' = r.new_jobs
              /\ cyc' = [cyc EXCEPT !.extracted = r.outcome,
                                    !.batch = IdsOf(r.new_jobs)]
              /\ pc' = n.pc
              /\ sleepSecs' = n.secs
              /\ starts' = starts + (IF Created(driver, init) THEN 1 ELSE 0)
    /\ UNCHANGED <<cycle, telegram_bot, email_configured, authenticated, lg,
                   notifyCount, lastNotify, mode, sig, ctask, quits, trims, loginMsgs, failed, fn>>

\* ----------------------------------------------------- process_new_jobs()
\* One iteration of `for job in jobs`: format the alert, await notify, log
\* the result.  After the last record run() goes to its normal sleep.
\* `if notification_sent: ... else: self.logger.warning(...)`: the loop only
\* logs the result; a record whose alert failed stays in seen_jobs
AfterNotify_retry(seen, id, sent) == IF sent THEN seen ELSE seen \ {id}
AfterNotify(seen, id, sent) == seen

\* `for job in jobs`: the record the loop of process_new_jobs takes next and
\* the records it leaves for the iterations after it
Dispatch_reverse(jobs) ==
    [job |-> jobs[Len(jobs)], rest |-> SubSeq(jobs, 1, Len(jobs) - 1)]

Dispatch(jobs) == [job |-> Head(jobs), rest |-> Tail(jobs)]

\* one iteration of process_new_jobs: the awaited notify call for one record
ProcessNewJobs ==
    /\ pc = "notify"
    /\ new_jobs # <<>>
    /\ \E botOut \in BotOutcomes, apiOut \in ApiOutcomes, smtpOut \in SmtpOutcomes :
          \E r \in {notify(telegram_bot, email_configured, botOut, apiOut,
                         smtpOut)} :
          LET job == Dispatch(new_jobs).job
              sent == ~r.raised /\ r.ok
              c1 == [cyc EXCEPT !.notified =
                                    Append(@, [id |-> job.id, ok |-> r.ok])]
          IN  /\ notifyCount' = [notifyCount EXCEPT ![job.id] = @ + 1]
              /\ failed' = IF r.raised \/ r.ok THEN failed
                           ELSE failed \cup {job.id}
              /\ seen_jobs' = AfterNotify(seen_jobs, job.id, sent)
              /\ lastNotify' = [called |-> TRUE, id |-> job.id, ok |-> r.ok,
                                raised |-> r.raised, attempts |-> r.attempts]
              /\ IF r.raised
                 THEN LET h == RunExcept(c1, "notify")
                      IN  /\ pc' = h.pc
                          /\ sleepSecs' = h.secs
                          /\ cyc' = h.cyc
                          /\ new_jobs' = <<>>
                 ELSE /\ new_jobs' = Dispatch(new_jobs).rest
                      /\ cyc' = c1
                      /\ IF Dispatch(new_jobs).rest = <<>>
                         THEN pc' = "sleep" /\ sleepSecs' = CyclePause(TRUE)
                         ELSE pc' = "notify" /\ sleepSecs' = 0
    /\ UNCHANGED <<cycle, driver, telegram_bot, email_configured,
                   authenticated, lg, reseen,
                   mode, sig, ctask, quits, starts, trims, loginMsgs, fn>>

\* ------------------------------------------------------ end of a cycle
\* how a finished cycle ended
Ended(c) ==
    IF c.error = "extract" THEN "error:extract"
    ELSE IF c.error # "none" THEN "error"
    ELSE IF c.login = "false" THEN "login_failed"
    ELSE IF c.extracted \in {"init_exc", "nav_exc", "grid_exc"} THEN "extract_exc"
    ELSE "ok"

\* asyncio.sleep(30) or asyncio.sleep(60) returns and the loop starts its
\* next iteration; the portal may have dropped the session meanwhile
Sleep ==
    /\ pc = "sleep"
    /\ cycle < MaxCycles
    /\ pc' = "login"
    /\ cycle' = cycle + 1
    /\ cyc' = CycInit(Ended(cyc))
    /\ sleepSecs' = 0
    /\ lastNotify' = NoNotify
    /\ reseen' = {}
    /\ \E expired \in BOOLEAN : authenticated' = (authenticated /\ ~expired)
    /\ UNCHANGED <<driver, telegram_bot, email_configured, seen_jobs, new_jobs,
                   lg, notifyCount,
                   mode, sig, ctask, quits, starts, trims, loginMsgs, failed, fn>>

\* ---------------------------------------------------------------- main.py
\* debug_closed_jobs: the whole call of check_closed_jobs
CheckClosedJobs ==
    /\ pc = "closed_extract"
    /\ \E init \in (IF driver = "none" THEN {"ok", "exc"} ELSE {"ok"}),
          e \in ClosedEnvs, seed \in HashSeeds :
       \* the rows are read only when a row selector was reached
       \E page \in (IF ClosedOutcome("live", e, <<RowMarked>>) = "ok"
                    THEN Pages ELSE {<<>>}) :
          \E r \in {check_closed_jobs(driver, init, e, page, seed)} :
              /\ driver' = r.driver
              /\ new_jobs' = r.jobs
              /\ cyc' = [cyc EXCEPT !.extracted = r.outcome,
                                    !.batch = IdsOf(r.jobs)]
              /\ pc' = IF r.raised THEN DebugExcept(cyc, "extract").pc
                       ELSE "print"
              /\ starts' = starts + (IF Created(driver, init) THEN 1 ELSE 0)
    /\ UNCHANGED <<cycle, telegram_bot, email_configured, seen_jobs,
                   authenticated, lg, sleepSecs, notifyCount, lastNotify,
                   reseen, mode, sig, ctask, quits, trims, loginMsgs, failed, fn>>

\* the debug functions print the records they got and fall into `finally`
PrintJobs ==
    /\ pc = "print"
    /\ new_jobs' = <<>>
    /\ pc' = "cleanup"
    /\ UNCHANGED <<cycle, driver, telegram_bot, email_configured, seen_jobs,
                   authenticated, lg, cyc, sleepSecs, notifyCount, lastNotify,
                   reseen, mode, sig, ctask, quits, starts, trims, loginMsgs, failed, fn>>

\* send_test_notification: one send_telegram, then cleanup()
TestNotification ==
    /\ pc = "test_send"
    /\ \E botOut \in BotOutcomes, apiOut \in ApiOutcomes :
          LET r == send_telegram(telegram_bot, botOut, apiOut)
          IN  /\ cyc' = [cyc EXCEPT !.startup = IF r.ok THEN "sent" ELSE "failed"]
              /\ pc' = IF r.raised THEN "exited" ELSE "cleanup"
    /\ UNCHANGED <<cycle, driver, telegram_bot, email_configured, seen_jobs,
                   new_jobs, authenticated, lg, sleepSecs, notifyCount,
                   lastNotify, reseen, mode, sig, ctask, quits, starts, trims, loginMsgs, failed, fn>>

\* cleanup(): the shutdown message; what send_telegram gives is only logged
CleanupSend ==
    /\ pc = "cleanup"
    /\ pc' = "close"
    /\ UNCHANGED <<cycle, driver, telegram_bot, email_configured, seen_jobs,
                   new_jobs, authenticated, lg, cyc, sleepSecs, notifyCount,
                   lastNotify, reseen, mode, sig, ctask, quits, starts, trims, loginMsgs, failed, fn>>

\* a cleanup task that has not finished when main() ends is cancelled
Cancelled(t) == IF t \in {"pending", "sending"} THEN "cancelled" ELSE t

\* cleanup(): _close_session and _close_selenium; then main() is over
CleanupClose ==
    /\ pc = "close"
    /\ \E q \in {"ok", "exc"} :
          LET c == CloseSelenium(driver, q, quits)
          IN  /\ driver' = c.driver
              /\ quits' = c.quits
    /\ pc' = "exited"
    /\ ctask' = Cancelled(ctask)
    /\ UNCHANGED <<cycle, telegram_bot, email_configured, seen_jobs, new_jobs,
                   authenticated, lg, cyc, sleepSecs, notifyCount, lastNotify,
                   reseen, mode, sig, starts, trims, loginMsgs, failed, fn>>

Next ==
    \/ VerifyChannels
    \/ StartupMessage
    \/ LoginStart
    \/ LoginUsername
    \/ LoginPassword
    \/ LoginButton
    \/ LoginClick
    \/ LoginClassify
    \/ LoginPortal
    \/ LoginReturn
    \/ CheckJobsDirect
    \/ ProcessNewJobs
    \/ Sleep
    \/ UnexpectedError
    \/ CheckClosedJobs
    \/ PrintJobs
    \/ TestNotification
    \/ CleanupSend
    \/ CleanupClose

Spec == Init /\ [][Next]_vars

\* ------------------------------------- one extraction pass on its own
\* The two extraction functions applied once to a page drawn at the start:
\* every other variable stays as a debug run has it before its first step.
ProbeInit(page) ==
    [phase |-> "ready", page |-> page, tab_found |-> FALSE, sel |-> <<>>,
     seed |-> 0, seen |-> {}, out |-> <<>>, seen_after |-> {},
     reseen |-> {}, outcome |-> "none", strategy |-> 0, raised |-> FALSE]

ExtractInit ==
    /\ fn \in {ProbeInit(page) : page \in ProbePages}
    /\ mode = "debug_direct"
    /\ pc = Entry(mode)
    /\ sig = NoSignal
    /\ ctask = "none"
    /\ quits = 0
    /\ starts = 0
    /\ trims = 0
    /\ loginMsgs = 0
    /\ failed = {}
    /\ cycle = 1
    /\ driver = "none"
    /\ telegram_bot = FALSE
    /\ email_configured = FALSE
    /\ seen_jobs = {}
    /\ new_jobs = <<>>
    /\ authenticated = FALSE
    /\ lg = LgInit
    /\ cyc = CycInit("none")
    /\ sleepSecs = 0
    /\ notifyCount = [i \in JobIds |-> 0]
    /\ lastNotify = NoNotify
    /\ reseen = {}

\* one call of check_jobs_direct on the page
DirectPass ==
    /\ fn.phase = "ready"
    /\ \E init \in {"ok", "exc"} :
       \E dom \in (IF init = "ok" THEN {"ok", "nav_exc", "grid_exc"}
                   ELSE {"nav_exc"}) :
       \E tab \in (IF dom = "nav_exc" THEN {<<"ok">>} ELSE TabOutcomes),
          seen \in (IF dom = "ok" THEN SeenChoices ELSE {{}}) :
          \E r \in {check_jobs_direct("none", init, dom, tab, fn.page, seen,
                                     {})} :
              fn' = [fn EXCEPT !.phase = "direct", !.tab_found = r.tab_found,
                               !.seen = seen, !.out = r.new_jobs,
                               !.seen_after = r.seen, !.reseen = r.reseen,
                               !.outcome = r.outcome, !.raised = r.raised]
    /\ UNCHANGED <<pc, cycle, driver, telegram_bot, email_configured,
                   seen_jobs, new_jobs, authenticated, lg, cyc, sleepSecs,
                   notifyCount, lastNotify, reseen, mode, sig, ctask, quits, starts, trims, loginMsgs, failed>>

\* one call of check_closed_jobs on the page
ClosedPass ==
    /\ fn.phase = "ready"
    /\ \E init \in {"ok", "exc"} :
       \E e \in (IF init = "ok" THEN ClosedEnvs
                 ELSE {x \in ClosedEnvs : x.nav = "exc"}) :
       \E seed \in (IF ClosedOutcome("live", e, fn.page) = "ok"
                    THEN HashSeeds ELSE {0}) :
          \E r \in {check_closed_jobs("none", init, e, fn.page, seed)} :
              fn' = [fn EXCEPT !.phase = "closed", !.sel = e.sel,
                               !.seed = seed,
                               !.out = r.jobs, !.outcome = r.outcome,
                               !.strategy = r.strategy, !.raised = r.raised]
    /\ UNCHANGED <<pc, cycle, driver, telegram_bot, email_configured,
                   seen_jobs, new_jobs, authenticated, lg, cyc, sleepSecs,
                   notifyCount, lastNotify, reseen, mode, sig, ctask, quits, starts, trims, loginMsgs, failed>>

ExtractNext ==
    \/ DirectPass
    \/ ClosedPass

ExtractSpec == ExtractInit /\ [][ExtractNext]_vars

\* ------------------------------------------ signals in the polling mode
\* positions where the main task is suspended in an await; everywhere else it
\* is inside a blocking call of its own step
Awaiting == {"verify", "startup", "l_portal", "notify", "sleep"}

\* the main task is suspended at an await and the event loop can run another
\* task: asyncio.sleep always suspends, an await of the notification manager
\* only when it reaches the telegram client (requests.post blocks instead)
MainAwaits(p, bot) ==
    p = "sleep" \/ (bot /\ p \in (Awaiting \cup {"cleanup"}))

\* sys.exit(0) in signal_handler: SystemExit passes every `except Exception`
\* and reaches the `finally` of main(); raised while that cleanup() is under
\* way it leaves cleanup() and ends main()
SignalExit_continue(p) == p
SignalExit(p) == IF p \in {"cleanup", "close"} THEN "exited" ELSE "cleanup"

\* asyncio.create_task(scraper.cleanup()) in signal_handler: the task waits
\* for the main task to await; when SystemExit left the event loop itself,
\* asyncio.run cancels it before its first step
CleanupTask(p, at, t) ==
    IF p \in {"cleanup", "close"} THEN Cancelled(t)
    ELSE IF at = "running" THEN "pending"
    ELSE "cancelled"

\* SIGINT or SIGTERM is delivered; the handler is installed by main() in the
\* polling mode only and stays installed
Signal ==
    /\ mode = "run"
    /\ sig.count < MaxSignals
    /\ pc \notin {"exited", "returned"}
    /\ pc' = SignalExit(pc)
    /\ \E at \in (IF pc = "sleep" THEN {"suspended"}
                  ELSE IF pc \in Awaiting THEN {"running", "suspended"}
                  ELSE {"running"}) :
          /\ sig' = [count |-> sig.count + 1,
                     at |-> IF sig.count = 0 THEN at ELSE sig.at,
                     in_cleanup |-> pc \in {"cleanup", "close"}]
          /\ ctask' = CleanupTask(pc, at, ctask)
    /\ lg' = LgInit
    /\ new_jobs' = <<>>
    /\ sleepSecs' = 0
    /\ UNCHANGED <<cycle, driver, telegram_bot, email_configured, seen_jobs,
                   authenticated, cyc, notifyCount, lastNotify, reseen,
                   mode, quits, starts, trims, loginMsgs, failed, fn>>

\* the handler's cleanup task gets its first step while the main task
\* awaits, and sends the closing message
CleanupTaskSend ==
    /\ ctask = "pending"
    /\ MainAwaits(pc, telegram_bot)
    /\ ctask' = "sending"
    /\ UNCHANGED <<pc, cycle, driver, telegram_bot, email_configured,
                   seen_jobs, new_jobs, authenticated, lg, cyc, sleepSecs,
                   notifyCount, lastNotify, reseen, mode, sig, quits, starts, trims, loginMsgs, failed, fn>>

\* the handler's cleanup task gets its answer first and closes the browser
CleanupTaskClose ==
    /\ ctask = "sending"
    /\ MainAwaits(pc, telegram_bot)
    /\ \E q \in {"ok", "exc"} :
          LET c == CloseSelenium(driver, q, quits)
          IN  /\ driver' = c.driver
              /\ quits' = c.quits
    /\ ctask' = "done"
    /\ UNCHANGED <<pc, cycle, telegram_bot, email_configured, seen_jobs,
                   new_jobs, authenticated, lg, cyc, sleepSecs, notifyCount,
                   lastNotify, reseen, mode, sig, starts, trims, loginMsgs, failed, fn>>

SignalNext ==
    \/ Next
    \/ Signal
    \/ CleanupTaskSend
    \/ CleanupTaskClose

SignalSpec == Init /\ [][SignalNext]_vars

TypeOK ==
    /\ pc \in TryBody \cup {"verify", "startup", "sleep", "returned",
                           "closed_extract", "print", "test_send", "cleanup",
                           "close", "exited"}
    /\ mode \in Modes
    /\ starts \in Nat
    /\ trims \in Nat
    /\ loginMsgs \in 0..MaxCycles
    /\ failed \subseteq JobIds
    /\ quits \in 0..2
    /\ ctask \in {"none", "pending", "sending", "done", "cancelled"}
    /\ cycle \in 1..MaxCycles
    /\ driver \in {"none", "live"}
    /\ seen_jobs \subseteq JobIds
    /\ reseen \subseteq JobIds
    /\ sleepSecs \in {0, NormalSleep, CooldownSleep}

\* ================================================================ claims ==
\* C1: over any sequence of poll cycles each job id gets at most one notify
\* call from process_new_jobs, also when its row shows up in several passes or
\* twice in one pass; an id that is in seen_jobs is never returned as new.
C1_AtMostOneAlertPerId ==
    /\ [](\A i \in JobIds : notifyCount[i] <= 1)
    /\ [][pc = "extract" =>
            \A k \in DOMAIN new_jobs' : new_jobs'[k].id \notin seen_jobs]_vars

\* an id whose row was met again after it had been alerted once
C1_Witness == \E i \in reseen : notifyCount[i] = 1 /\ cycle = 2

\* C2: every id in seen_jobs has already had notify called for its record.
C2_SeenOnlyAfterNotify == \A i \in seen_jobs : notifyCount[i] >= 1

\* C3: one notify makes at most 3 delivery attempts and stops at the first
\* success; two failures followed by a success give True; when every attempt
\* fails the result is False after exactly 3 attempts.
C3_RetryBound ==
    lastNotify.called =>
        LET a == lastNotify.attempts
        IN  /\ Len(a) <= 3
            /\ \A k \in 1..(Len(a) - 1) : ~a[k].ok
            /\ (Len(a) = 3 /\ ~a[1].ok /\ ~a[2].ok /\ a[3].ok) => lastNotify.ok
            /\ (\A k \in DOMAIN a : ~a[k].ok) => (~lastNotify.ok /\ Len(a) = 3)

\* C4: notify returns True exactly when at least one delivery attempt for the
\* record succeeded.
C4_TrueIffDelivered ==
    lastNotify.called =>
        (lastNotify.ok <=> \E k \in DOMAIN lastNotify.attempts :
                               lastNotify.attempts[k].ok)

\* C5: notify never raises, whatever the transports do; after a record whose
\* delivery failed process_new_jobs goes on with the remaining records, and a
\* cycle that reaches its normal sleep has alerted its whole batch.
C5_DeliveryFailureNotEscalated ==
    /\ [](~lastNotify.raised)
    /\ [][(pc = "notify" /\ notifyCount' # notifyCount) =>
            /\ new_jobs' = Tail(new_jobs)
            /\ pc' = (IF new_jobs' = <<>> THEN "sleep" ELSE "notify")]_vars
    /\ []((pc = "sleep" /\ sleepSecs = NormalSleep) =>
            cyc.batch = IdsOf(cyc.notified))

\* a batch of two whose first delivery failed and whose second was attempted
C5_Witness ==
    /\ pc = "sleep"
    /\ Len(cyc.batch) = 2
    /\ Len(cyc.notified) = 2
    /\ ~cyc.notified[1].ok

\* C6: an exception in a cycle never ends the loop of run(): one that reaches
\* run() leads to the cooldown, one raised inside extraction is answered with
\* an empty result and the normal sleep, and after either sleep the next
\* cycle starts with login.
C6_LoopSurvivesExceptions ==
    /\ [](pc # "returned")
    /\ [][(mode = "run" /\ cyc.error = "none" /\ cyc'.error # "none") =>
            (pc' = "sleep" /\ sleepSecs' = CooldownSleep)]_vars
    /\ []((mode = "run"
             /\ cyc.extracted \in {"init_exc", "nav_exc", "grid_exc"}
             /\ cyc.error = "none") =>
            (pc = "sleep" /\ sleepSecs = NormalSleep))
    /\ [][(pc = "sleep" /\ pc' # "sleep") =>
            (pc' = "login" /\ cyc'.login = "none")]_vars

\* the cycle after an exception out of extraction has logged in again and is
\* about to extract
C6_Witness == cyc.prev = "error:extract" /\ cyc.login = "true" /\ pc = "extract"

\* C7: a cycle in which login() returned False extracts nothing, alerts
\* nothing and sleeps the 60 s cooldown; then login is attempted again, and
\* run() does not return however many logins fail in a row.
C7_LoginFailureCooldown ==
    /\ []((mode = "run" /\ cyc.login = "false") =>
            /\ cyc.extracted = "none"
            /\ cyc.notified = <<>>
            /\ pc = "sleep"
            /\ sleepSecs = CooldownSleep)
    /\ [][(mode = "run" /\ cyc.login = "false" /\ pc' # pc) =>
            (pc' = "login" /\ cyc'.prev = "login_failed")]_vars
    /\ [](pc # "returned")

\* a second consecutive login failure
C7_Witness == cyc.prev = "login_failed" /\ cyc.login = "false" /\ pc = "sleep"

\* C8: the login protocol (visit of the login page) is run only when the
\* session is not authenticated.
C8_NoLoginWhenAuthenticated ==
    [][(pc = "login" /\ lg'.visited) => ~authenticated]_vars

\* C9: the attempt is classified as failed exactly when none of the three
\* signals holds and the URL after the submit still contains the login path.
C9_FailedIffNoSignalOnLoginUrl ==
    lg.classified # "none" =>
        (lg.classified = "failed" <=>
            /\ ~UrlSignalOf[lg.current_url]
            /\ ~lg.element
            /\ ~(lg.page_source # None /\ TextSignalOf[lg.page_source])
            /\ OnLoginPageOf[lg.current_url])

\* C10: a failure of the driver start, of either credential field, of the
\* login button or of the click makes login() return False without raising,
\* and the button is clicked only after both credential fields were found.
C10_LoginFailsClosed ==
    /\ ~lg.raised
    /\ lg.failed_at \in {"driver", "visit", "username", "password", "button",
                         "click"} => (lg.ret = "false" /\ pc = "login_ret")
    /\ lg.clicked => (lg.username_field /\ lg.password_field)
    /\ (pc = "l_click" \/ lg.clicked) => lg.login_button

\* the password field is missing: False, and nothing was submitted
C10_Witness ==
    /\ lg.failed_at = "password"
    /\ lg.username_field
    /\ ~lg.clicked
    /\ lg.ret = "false"

\* C11: check_jobs_direct and check_closed_jobs are called only after login()
\* returned True in the same cycle of run() or in the same one-shot run; after
\* a login that returned False neither is called.
C11_ExtractOnlyAfterLogin ==
    /\ (pc \in {"extract", "closed_extract"} \/ cyc.extracted # "none") =>
          cyc.login = "true"
    /\ cyc.login = "false" =>
          (pc \notin {"extract", "closed_extract", "print", "notify"}
             /\ cyc.extracted = "none")

\* a debug run whose login succeeded has read the closed jobs
C11_Witness ==
    /\ mode = "debug_closed"
    /\ cyc.login = "true"
    /\ cyc.extracted = "ok"
    /\ pc = "print"

\* C12: whatever driver operation fails (driver start, navigation, the way
\* down to the grid, a stale row, the tab click), check_jobs_direct returns a
\* list and does not raise; a row that fails is skipped and the rows before
\* and after it are returned as if the failing row were not on the page.
C12_ExtractionAbsorbsUiErrors ==
    fn.phase = "direct" =>
        /\ ~fn.raised
        /\ fn.outcome # "ok" => (fn.out = <<>> /\ fn.seen_after = fn.seen)
        /\ fn.outcome = "ok" =>
              LET healthy == SelectSeq(fn.page, LAMBDA r : ~r.stale)
                  st0 == [seen |-> fn.seen, new_jobs |-> <<>>, reseen |-> {}]
              IN  fn.out = ProcessRows(healthy, st0).new_jobs

\* a stale row between two good ones, after a tab that could not be clicked
C12_Witness ==
    /\ fn.phase = "direct"
    /\ fn.page = <<RowMarked, RowStale, RowReqId>>
    /\ ~fn.tab_found
    /\ IdsOf(fn.out) = <<"101", "102">>

\* C13: when the first extraction strategy raises or finds nothing the next
\* one is tried, the first strategy that finds rows gives the result, and no
\* later strategy adds to it.
C13_StrategyFallthrough ==
    /\ (fn.phase = "direct" /\ fn.outcome = "grid_exc") =>
          fn.out = ProcessRows(fn.page, [seen |-> fn.seen, new_jobs |-> <<>>,
                                         reseen |-> {}]).new_jobs
    /\ (fn.phase = "closed" /\ fn.outcome = "ok") =>
          /\ fn.strategy = FirstRows(fn.sel, 1)
          /\ fn.out = ProcessClosedRows(fn.page, fn.seed, <<>>)

\* C14: a row whose only marked cell is the customerName cell, with text T,
\* gives a record with client = T, wherever that cell is and whatever T is
\* (an empty T included).
C14_MarkerPriority ==
    fn.phase \in {"direct", "closed"} =>
        \A k \in DOMAIN fn.page :
            LET r == fn.page[k]
                marked == {c \in DOMAIN r.cells : r.cells[c].col # None}
            IN  \A c \in marked :
                    (marked = {c} /\ r.cells[c].col = "customerName") =>
                        \A j \in DOMAIN fn.out :
                            fn.out[j].id = r.rowid =>
                                fn.out[j].client = r.cells[c].text

\* C15: the unmarked row 12345 / 10:00 AM / 60 / Acme Corp is mapped to the
\* time 10:00 AM, the duration 60 and the client Acme Corp.
C15_HeuristicFallback ==
    (fn.phase \in {"direct", "closed"} /\ fn.outcome = "ok"
       /\ fn.page = <<RowPlain>> /\ fn.seen = {}) =>
        /\ Len(fn.out) = 1
        /\ fn.out[1].date = "10:00 AM"
        /\ fn.out[1].duration = "60"
        /\ fn.out[1].client = "Acme Corp"

\* C16: every extracted record has an id: the row identifier, else a hash of
\* the row text, else a synthetic one.
C16_EveryRecordHasId ==
    fn.phase \in {"direct", "closed"} =>
        \A j \in DOMAIN fn.out : Truthy(fn.out[j].id)

\* C17: when SIGINT or SIGTERM is received in the polling mode the loop exits
\* and the browser is released: the process never ends with a live WebDriver
\* session on which quit was not called.
C17_SignalReleasesBrowser ==
    (mode = "run" /\ pc = "exited" /\ sig.count > 0) =>
        (driver = "none" \/ quits > 0)

\* C18: a one-shot invocation (test notification, closed-jobs dump,
\* direct-jobs dump) makes a single pass: it stays in its first cycle, never
\* reaches a position of the poll loop, moves strictly forward on every step
\* (so it logs in at most once, extracts at most once and ends), and a dump
\* ends only out of cleanup(), with no browser or with quit called on it, also
\* after a failed login and after an exception.
C18_OneShotSinglePass ==
    /\ [](mode \in OneShot =>
            /\ cycle = 1
            /\ pc \notin {"verify", "startup", "notify", "sleep", "returned"}
            /\ pc = "exited" => (driver = "none" \/ quits > 0)
            /\ mode = "test_notification" => driver = "none")
    /\ [][(mode \in OneShot) =>
           (LET order == <<"exited", "close", "cleanup", "print", "test_send",
                           "extract", "closed_extract", "login_ret",
                           "l_portal", "l_classify", "l_click", "l_button",
                           "l_pass", "l_user", "login">>
                rank(p) == CHOOSE k \in DOMAIN order : order[k] = p
            IN  /\ rank(pc') < rank(pc)
                /\ (mode # "test_notification" /\ pc' = "exited") =>
                      pc = "close")]_vars

\* a direct-jobs dump whose login failed has quit its browser and ended
C18_Witness ==
    /\ mode = "debug_direct"
    /\ pc = "exited"
    /\ cyc.login = "false"
    /\ cyc.extracted = "none"
    /\ quits = 1
    /\ driver = "none"

\* C19: the dump modes never dispatch a job alert (no process_new_jobs, no
\* notify), and check_closed_jobs leaves seen_jobs as it was.
C19_DumpModesNeverAlert ==
    /\ [](mode \in {"debug_closed", "debug_direct"} =>
            /\ \A i \in JobIds : notifyCount[i] = 0
            /\ ~lastNotify.called
            /\ pc # "notify")
    /\ [][pc = "closed_extract" => seen_jobs' = seen_jobs]_vars

\* a closed-jobs dump that found two records and is about to print them
C19_Witness ==
    /\ mode = "debug_closed"
    /\ pc = "print"
    /\ Len(new_jobs) = 2
    /\ seen_jobs = {}

\* C20: run() goes Start -> VerifyChannels -> startup message -> login ->
\* extraction -> notification -> sleep -> login: the channels are verified
\* once, before the first login, and neither a failed verification nor a
\* failed startup message keeps the loop from starting.
C20_RunOrder ==
    /\ [](mode = "run" =>
            /\ pc = "verify" => (cycle = 1 /\ cyc.verify = "none"
                                   /\ cyc.login = "none")
            /\ (cycle = 1 /\ pc # "verify") => cyc.verify # "none"
            /\ (cycle = 1 /\ cyc.login # "none") => cyc.startup # "none")
    /\ [][(mode = "run" /\ pc' # pc) =>
           (/\ pc' # "verify"
            /\ pc = "verify" => pc' = "startup"
            /\ pc = "startup" => pc' = "login"
            /\ pc' = "login" => pc \in {"startup", "sleep"}
            /\ pc' = "extract" => pc = "login_ret"
            /\ pc' = "notify" => pc = "extract"
            /\ pc' = "sleep" => pc \in TryBody)]_vars

\* the first cycle logged in, extracted and notified although verification
\* and the startup message had both failed
C20_Witness ==
    /\ mode = "run"
    /\ cycle = 1
    /\ cyc.verify = "false"
    /\ cyc.startup = "failed"
    /\ cyc.login = "true"
    /\ cyc.notified # <<>>
    /\ pc = "sleep"

\* C21: the success signals are looked at in the order (a) URL pattern,
\* (b) post-login element, (c) page-text keyword: (b) only when (a) failed,
\* and (c) whenever (a) and (b) both failed, whether or not the diagnostic
\* screenshot could be taken.
C21_SignalOrder ==
    lg.classified # "none" =>
        /\ UrlSignalOf[lg.current_url] => (~lg.element /\ lg.page_source = None)
        /\ lg.element => lg.page_source = None
        /\ (~UrlSignalOf[lg.current_url] /\ ~lg.element) =>
              (lg.successful_login <=> TextSignalOf[lg.page_source])

\* C22: login() returns True only after it went to the interpreter portal
\* itself; when that navigation fails it returns False.
C22_TrueOnlyAfterPortal ==
    /\ [](lg.ret = "true" => (lg.portal /\ lg.classified = "success"))
    /\ [](lg.failed_at = "portal" => (lg.ret = "false" /\ ~lg.portal))
    /\ [][(cyc'.login = "true" /\ cyc.login # "true") => lg.portal]_vars

\* the attempt was classified as a success and the portal could not be loaded
C22_Witness ==
    /\ pc = "login_ret"
    /\ lg.classified = "success"
    /\ lg.failed_at = "portal"
    /\ lg.ret = "false"

\* C23: extraction never returns a record for which neither the client nor
\* the schedule text could be read from the row.
C23_OnlyPopulatedRecords ==
    fn.phase \in {"direct", "closed"} =>
        \A j \in DOMAIN fn.out :
            ~(fn.out[j].client = "Unknown Client"
                /\ fn.out[j].date = "Unknown Time")

C25_SchemaDefaults ==
    fn.phase \in {"direct", "closed"} =>
        \A j \in DOMAIN fn.out :
            /\ DOMAIN fn.out[j] = {"id", "title", "client", "date", "duration",
                                   "description", "location"}
            /\ fn.out[j].client # Empty
            /\ fn.out[j].location = fn.out[j].client

\* C25 as the code has it: location equals client when a client was read
\* and is "Unknown Location" when client is the default "Unknown Client".
C25_SchemaDefaultsPerField ==
    fn.phase \in {"direct", "closed"} =>
        \A j \in DOMAIN fn.out :
            /\ DOMAIN fn.out[j] = {"id", "title", "client", "date", "duration",
                                   "description", "location"}
            /\ fn.out[j].client # Empty
            /\ fn.out[j].date # Empty
            /\ fn.out[j].duration # Empty
            /\ fn.out[j].location =
                  IF fn.out[j].client = "Unknown Client"
                  THEN "Unknown Location" ELSE fn.out[j].client
            /\ fn.out[j].title =
                  IF fn.out[j].client = "Unknown Client"
                  THEN "Interpretation Job"
                  ELSE "Interpretation for " \o fn.out[j].client

\* a row without text next to a row with a client: one record with the
\* defaults, one with the client as location
C25_Witness ==
    /\ fn.phase = "direct"
    /\ fn.page = <<RowBlank, RowMarked>>
    /\ Len(fn.out) = 2
    /\ fn.out[1].client = "Unknown Client"
    /\ fn.out[1].location = "Unknown Location"
    /\ fn.out[2].location = "Acme Corp"

\* C26: seen_jobs only grows: no step of login, extraction, notification, a
\* failed cycle or a cooldown removes an id, and only the dedup step of
\* check_jobs_direct adds one.
C26_SeenMonotonic ==
    /\ [][seen_jobs \subseteq seen_jobs']_vars
    /\ [][seen_jobs' # seen_jobs => pc = "extract"]_vars

\* the cycle after one that ended in an exception has added a second id
C26_Witness ==
    /\ cycle = 2
    /\ cyc.prev = "error"
    /\ Len(cyc.batch) = 1
    /\ Cardinality(seen_jobs) = 2

\* C27: within a cycle the alerts go out one record at a time in the order
\* of extraction: what was attempted so far is always a prefix of the batch,
\* and each notify call adds the attempt for the next record of the batch.
C27_SequentialInOrder ==
    /\ [](mode = "run" =>
            /\ Len(cyc.notified) <= Len(cyc.batch)
            /\ IdsOf(cyc.notified) = SubSeq(cyc.batch, 1, Len(cyc.notified)))
    /\ [][(pc = "notify" /\ cyc'.notified # cyc.notified) =>
            /\ Len(cyc'.notified) = Len(cyc.notified) + 1
            /\ SubSeq(cyc'.notified, 1, Len(cyc.notified)) = cyc.notified
            /\ cyc'.notified[Len(cyc'.notified)].id = new_jobs[1].id]_vars
    /\ [][pc = "extract" => IdsOf(new_jobs') = cyc'.batch]_vars

\* the first record of a batch of two has been attempted, the second waits
C27_Witness ==
    /\ pc = "notify"
    /\ Len(cyc.batch) = 2
    /\ Len(cyc.notified) = 1
    /\ cyc.notified[1].id = cyc.batch[1]
    /\ Len(new_jobs) = 1
    /\ new_jobs[1].id = cyc.batch[2]

\* C28: the scraper owns at most one browser session at any time.
\* _init_selenium starts a session only when no driver is owned, a login or
\* extraction step that finds a driver keeps using that driver, and a
\* further session starts only after every earlier one was released by
\* driver.quit().
C28_OneBrowserSession ==
    /\ [](starts <= quits + 1)
    /\ [](driver = "live" => starts >= 1)
    /\ [][(starts' # starts) =>
             (driver = "none" /\ driver' = "live" /\ starts <= quits
                /\ starts' = starts + 1)]_vars
    /\ [][(driver = "live" /\ driver' = "none") => quits' = quits + 1]_vars
    /\ [][(driver = "live" /\
             pc \in {"login", "l_user", "l_pass", "l_button", "l_click",
                     "l_classify", "l_portal", "extract", "closed_extract"})
             => (driver' = "live" /\ starts' = starts /\ quits' = quits)]_vars

\* the second cycle of the poll loop extracts with the session the first
\* cycle started
C28_Witness ==
    /\ mode = "run" /\ cycle = 2 /\ pc = "extract"
    /\ driver = "live" /\ starts = 1 /\ quits = 0

\* C29: what cleanup() does with the driver never interleaves with a login
\* or extraction step that is still in progress: while the cleanup task of
\* the signal handler is waiting or running, the main task is in none of
\* these steps, the task takes its steps only while main() awaits inside
\* its own cleanup(), and driver.quit() is called only from there.
C29_CleanupAfterSteps ==
    /\ [](ctask \in {"pending", "sending"} =>
            pc \notin {"login", "l_user", "l_pass", "l_button", "l_click",
                       "l_classify", "l_portal", "login_ret", "extract",
                       "closed_extract"})
    /\ [][(ctask' # ctask /\ ctask' \in {"sending", "done"}) =>
             (pc = "cleanup" /\ pc' = "cleanup")]_vars
    /\ [][(quits' # quits) => pc \in {"cleanup", "close"}]_vars

\* a signal that arrived while login() was at work in the first cycle: the
\* handler's task closed the browser that login() had started
C29_Witness ==
    /\ sig.count = 1 /\ cycle = 1 /\ cyc.login = "none"
    /\ starts = 1 /\ ctask = "done" /\ quits = 1 /\ driver = "none"

\* C30: the sleep that ends a cycle of the poll loop lasts the normal
\* interval exactly when login() returned True and no exception reached the
\* `except Exception` of run() in that cycle, and the cooldown in every other
\* cycle; the normal interval is strictly shorter than the cooldown.
C30_SleepByOutcome ==
    /\ NormalSleep < CooldownSleep
    /\ (mode = "run" /\ pc = "sleep") =>
          /\ sleepSecs \in {NormalSleep, CooldownSleep}
          /\ sleepSecs = NormalSleep <=>
                (cyc.login = "true" /\ cyc.error = "none")
          /\ sleepSecs = CooldownSleep <=>
                (cyc.login # "true" \/ cyc.error # "none")

\* a cycle whose login succeeded and whose alert raised ends in the cooldown
C30_Witness ==
    /\ mode = "run" /\ pc = "sleep" /\ sleepSecs = CooldownSleep
    /\ cyc.login = "true" /\ cyc.error = "notify"

\* C31: side maintenance (trimming old diagnostic files) is triggered every
\* N cycles of the poll loop, whatever the cycles' outcomes; for any period N
\* within the modelled cycles, the loop that reached the end of its last
\* modelled cycle has triggered the maintenance at least once.
C31_PeriodicMaintenance ==
    (mode = "run" /\ pc = "sleep" /\ cycle = MaxCycles) => trims >= 1

\* C32: diagnostics are a pure side effect: a login that was classified as
\* successful and whose navigation to the portal succeeded returns True,
\* also when the dump of the page source could not be written.
C32_DiagnosticsSideEffectOnly ==
    (lg.classified = "success" /\ lg.portal /\ lg.ret # "none") =>
        lg.ret = "true"

\* C33: no id is marked seen without an alert attempt: when a cycle of the
\* poll loop has reached its sleep, every id that the cycle added to
\* seen_jobs has had exactly one notify call in that cycle.
C33_SeenImpliesAlerted ==
    (mode = "run" /\ pc = "sleep") =>
        \A k \in DOMAIN cyc.batch :
            Cardinality({j \in DOMAIN cyc.notified :
                            cyc.notified[j].id = cyc.batch[k]}) = 1

\* C34: a record whose delivery failed is not retried: once notify has
\* returned False for a record, no later step dispatches a notification for
\* the same id, however often its row is extracted again.
C34_NoRetryAfterFailure ==
    [][\A i \in failed : notifyCount'[i] = notifyCount[i]]_vars

\* the row of an id whose only alert failed is met again in the next cycle
\* and filtered out
C34_Witness ==
    /\ mode = "run" /\ cycle = 2 /\ pc = "sleep"
    /\ \E i \in failed \cap reseen : notifyCount[i] = 1

C36_NoIdCollision ==
    (fn.phase = "direct" /\ fn.outcome = "ok") =>
        LET read == {k \in DOMAIN fn.page :
                        ~fn.page[k].stale /\ Len(fn.page[k].cells) >= MinCells}
        IN  \A j \in read, k \in read :
                (fn.page[j] # fn.page[k] /\
                 ExtractRow(fn.page[j]).id = ExtractRow(fn.page[k]).id)
                    => ExtractRow(fn.page[j]).id # None

\* C37: over a whole run of the poll loop login() dispatches the status
\* message "application has started and successfully logged in" at most
\* once, not once per poll cycle.
C37_LoginMessageOnce == mode = "run" => loginMsgs <= 1

\* C38: for every record that process_new_jobs alerts, notify makes at least
\* one Telegram delivery attempt, through the client or, when the client
\* object could not be initialised, through the direct API call, and what
\* notify returns is never True without a Telegram attempt that succeeded.
C38_TelegramAlwaysAttempted ==
    lastNotify.called =>
        LET tg == {k \in DOMAIN lastNotify.attempts :
                      lastNotify.attempts[k].via \in {"bot", "api"}}
        IN  /\ tg # {}
            /\ lastNotify.ok => \E k \in tg : lastNotify.attempts[k].ok

\* C39: cleanup() is idempotent on resources: however many times it runs
\* (the task of the signal handler and the `finally` of main), each driver
\* instance is quit at most once, and once the process has ended the scraper
\* holds no driver, also when the shutdown message could not be sent.
C39_CleanupIdempotent ==
    /\ quits <= starts
    /\ pc = "exited" => driver = "none"

====
